---- MODULE Spec2Model ----
(***************************************************************************)
(* Business Finder: geocode a place, fetch points of interest from the     *)
(* Overpass API, normalise, deduplicate, sort and serialise them.          *)
(*                                                                         *)
(* Strings are sequences of Unicode code points, so that lower(), strip(), *)
(* isdigit(), len() and string comparison are computed, not assumed.       *)
(* Python's None for a string is the one-element sequence None (-1 is not  *)
(* a code point).  A dict is a record over its possible keys whose absent  *)
(* keys hold None; the dict None and the empty dict {} are both the record *)
(* with every key absent (every test the code makes on a contact or an     *)
(* address is a truthiness test, which cannot tell them apart).            *)
(***************************************************************************)
EXTENDS Integers, Sequences, FiniteSets, TLC

VARIABLES
    \* deduplicate_businesses applied once and twice to a candidate list
    dpc, candidates, once, twice,
    \* normalize_phone applied to a raw string
    ppc, phone, normalized,
    \* one /find-businesses request
    pc, radius_km, niche, geocoded, net_calls, retry_count, fetch_log, data,
    steps, response

dedupVars == <<dpc, candidates, once, twice>>
phoneVars == <<ppc, phone, normalized>>
reqVars   == <<pc, radius_km, niche, geocoded, net_calls, retry_count,
               fetch_log, data, steps, response>>
vars      == <<dedupVars, phoneVars, reqVars>>

-----------------------------------------------------------------------------
(* Bounds of the model                                                     *)

MaxLen == 3          \* longest candidate list given to deduplicate_businesses
MaxDigitRun == 12    \* longest run of digits in a raw phone string
MaxElements == 2     \* most raw elements in one Overpass reply

-----------------------------------------------------------------------------
(* Python values                                                           *)

None == <<-1>>

Truthy(s) == s # None /\ s # <<>>

\* a or b
Or(a, b) == IF Truthy(a) THEN a ELSE b

\* str.lower() on the ASCII letters (other code points used here have no
\* lowercase form)
Lower(s) == [i \in DOMAIN s |-> IF s[i] \in 65..90 THEN s[i] + 32 ELSE s[i]]

Whitespace == {9, 10, 11, 12, 13, 32}

RECURSIVE LStrip(_)
LStrip(s) == IF s # <<>> /\ Head(s) \in Whitespace THEN LStrip(Tail(s)) ELSE s

RECURSIVE RStrip(_)
RStrip(s) ==
    IF s # <<>> /\ s[Len(s)] \in Whitespace
    THEN RStrip(SubSeq(s, 1, Len(s) - 1))
    ELSE s

\* str.strip()
Strip(s) == RStrip(LStrip(s))

\* sep.join(parts)
RECURSIVE Join(_, _)
Join(parts, sep) ==
    IF parts = <<>> THEN <<>>
    ELSE IF Len(parts) = 1 THEN parts[1]
    ELSE parts[1] \o sep \o Join(Tail(parts), sep)

\* str(v).lower().strip() if v else ""
Norm(v) == IF Truthy(v) THEN Strip(Lower(v)) ELSE <<>>

Pipe == <<124>>

\* string literals
S_Bar      == <<66, 97, 114>>                 \* "Bar"
S_bar_sp   == <<98, 97, 114, 32>>             \* "bar "
S_ab       == <<97, 98>>                      \* "ab"
S_shop     == <<115, 104, 111, 112>>          \* "shop"
S_Br       == <<66, 114>>                     \* "Br"
S_bank     == <<98, 97, 110, 107>>            \* "bank"
S_atm      == <<97, 116, 109>>                \* "atm"
S_MainSt   == <<77, 97, 105, 110, 32, 83, 116>>   \* "Main St"
S_Pune     == <<80, 117, 110, 101>>           \* "Pune"
S_411001   == <<52, 49, 49, 48, 48, 49>>      \* "411001"
S_411002   == <<52, 49, 49, 48, 48, 50>>      \* "411002"
S_phone10  == <<57, 56, 55, 54, 53, 52, 51, 50, 49, 48>>   \* "9876543210"
S_CentralBank == <<67, 101, 110, 116, 114, 97, 108, 32, 66, 97, 110, 107>>
S_CentralBankHQ ==                            \* "Central  Bank (HQ)"
    <<67, 101, 110, 116, 114, 97, 108, 32, 32, 66, 97, 110, 107, 32, 40, 72, 81, 41>>

-----------------------------------------------------------------------------
(* Business record                                                         *)

NoContact == [phone |-> None, website |-> None, email |-> None,
              facebook |-> None, instagram |-> None]

NoAddress == [street |-> None, city |-> None, postcode |-> None, full |-> None]

\* truthiness of a dict: it has at least one key
DictTruthy(d) == \E k \in DOMAIN d : d[k] # None

\* d.get(k, '')
GetOrEmpty(d, k) == IF d[k] # None THEN d[k] ELSE <<>>

\* Business.is_valid with the generic-name test dropped
is_valid_no_generic(b) ==
    IF ~Truthy(b.name) /\ ~Truthy(b.brand) THEN FALSE
    ELSE LET name_lower == Strip(Lower(Or(b.name, <<>>)))
         IN  ~(Len(name_lower) <= 2)

generic_names == {
    <<117, 110, 107, 110, 111, 119, 110>>,                 \* unknown
    <<110, 111, 110, 101>>,                                \* none
    <<110, 117, 108, 108>>,                                \* null
    <<>>,                                                  \* ''
    <<110, 97>>,                                           \* na
    <<110, 47, 97>>,                                       \* n/a
    <<26410, 21629, 21517>>,                               \* U+672A U+547D U+540D
    <<28961, 21517>>,                                      \* U+7121 U+540D
    <<114, 101, 115, 116, 97, 117, 114, 97, 110, 116>>,    \* restaurant
    <<99, 97, 102, 101>>,                                  \* cafe
    <<115, 104, 111, 112>>,                                \* shop
    <<115, 116, 111, 114, 101>>,                           \* store
    <<98, 117, 115, 105, 110, 101, 115, 115>>,             \* business
    <<99, 111, 109, 112, 97, 110, 121>> }                  \* company

is_valid(b) ==
    IF ~Truthy(b.name) /\ ~Truthy(b.brand) THEN FALSE
    ELSE LET name_lower == Strip(Lower(Or(b.name, <<>>)))
         IN  ~(name_lower \in generic_names \/ Len(name_lower) <= 2)

\* The key string that get_hash_id digests.  MD5 is taken to be free of
\* collisions, so the digest is identified with the string it is made from.
get_hash_id(b) ==
    LET key_parts == << Norm(b.name), Norm(b.category), Norm(b.brand) >>
        addr_parts ==
            IF DictTruthy(b.address)
            THEN << Norm(GetOrEmpty(b.address, "street")),
                    Norm(GetOrEmpty(b.address, "city")),
                    Norm(GetOrEmpty(b.address, "postcode")) >>
            ELSE <<>>
    IN  Join(key_parts \o addr_parts, Pipe)

get_address_string(b) ==
    IF ~DictTruthy(b.address) THEN <<>>
    ELSE Norm(GetOrEmpty(b.address, "street")) \o Pipe
         \o Norm(GetOrEmpty(b.address, "city"))

\* sum(1 for v in [name, contact, address] if v)
data_score(b) ==
    (IF Truthy(b.name) THEN 1 ELSE 0)
    + (IF DictTruthy(b.contact) THEN 1 ELSE 0)
    + (IF DictTruthy(b.address) THEN 1 ELSE 0)

-----------------------------------------------------------------------------
(* deduplicate_businesses                                                  *)

EmptyDedup == [seen_hashes |-> {}, seen_combinations |-> {},
               unique_businesses |-> <<>>]

\* the fuzzy pass with < in place of <=
is_duplicate_strict(b, unique) ==
    \E i \in 1..Len(unique) :
        LET existing_name == Lower(Or(unique[i].name, <<>>))
            current_name  == Lower(Or(b.name, <<>>))
        IN  /\ Truthy(existing_name) /\ Truthy(current_name)
            /\ existing_name = current_name
            /\ data_score(b) < data_score(unique[i])

\* Method 3: the loop over unique_businesses sets is_duplicate and breaks at
\* the first accepted record of equal lowercased name whose score is not
\* below the candidate's
is_duplicate(b, unique) ==
    \E i \in 1..Len(unique) :
        LET existing_name == Lower(Or(unique[i].name, <<>>))
            current_name  == Lower(Or(b.name, <<>>))
        IN  /\ Truthy(existing_name) /\ Truthy(current_name)
            /\ existing_name = current_name
            /\ data_score(b) <= data_score(unique[i])

\* the acceptance with insert(0, business) in place of append(business)
accept_prepend(st, b, business_hash, combination_key) ==
    [seen_hashes       |-> st.seen_hashes \cup {business_hash},
     seen_combinations |-> st.seen_combinations \cup {combination_key},
     unique_businesses |-> <<b>> \o st.unique_businesses]

\* the acceptance without seen_hashes.add(business_hash)
accept_no_hash(st, b, business_hash, combination_key) ==
    [seen_hashes       |-> st.seen_hashes,
     seen_combinations |-> st.seen_combinations \cup {combination_key},
     unique_businesses |-> Append(st.unique_businesses, b)]

accept(st, b, business_hash, combination_key) ==
    [seen_hashes       |-> st.seen_hashes \cup {business_hash},
     seen_combinations |-> st.seen_combinations \cup {combination_key},
     unique_businesses |-> Append(st.unique_businesses, b)]

\* one iteration of the for loop
dedup_iteration(st, b) ==
    IF ~is_valid(b) THEN st
    ELSE
    LET business_hash   == get_hash_id(b)
        name_key        == Strip(Lower(Or(b.name, <<>>)))
        address_key     == get_address_string(b)
        combination_key == name_key \o Pipe \o address_key
    IN  IF business_hash \in st.seen_hashes THEN st
        ELSE IF combination_key \in st.seen_combinations /\ Truthy(address_key)
             THEN st
        ELSE IF is_duplicate(b, st.unique_businesses) THEN st
        ELSE accept(st, b, business_hash, combination_key)

RECURSIVE dedup_loop(_, _)
dedup_loop(st, bs) ==
    IF bs = <<>> THEN st
    ELSE dedup_loop(dedup_iteration(st, Head(bs)), Tail(bs))

deduplicate_businesses(bs) == dedup_loop(EmptyDedup, bs).unique_businesses

-----------------------------------------------------------------------------
(* Candidate lists for deduplicate_businesses                              *)

Contact1 == [NoContact EXCEPT !.phone = <<43, 57, 49>> \o S_phone10]

Address1 == [NoAddress EXCEPT !.street = S_MainSt, !.city = S_Pune,
                              !.postcode = S_411001]
Address2 == [NoAddress EXCEPT !.street = S_MainSt, !.city = S_Pune,
                              !.postcode = S_411002]

Biz(n, cat, br, con, adr) ==
    [name |-> n, category |-> cat, brand |-> br, contact |-> con,
     address |-> adr]

ValidCandidates ==
    { Biz(n, cat, None, con, adr) :
        n \in {S_Bar, S_bar_sp}, cat \in {S_bank, S_atm},
        con \in {NoContact, Contact1},
        adr \in {NoAddress, Address1, Address2} }

InvalidCandidates ==
    { Biz(S_shop, S_bank, None, Contact1, Address1),
      Biz(S_ab, S_bank, S_Br, NoContact, NoAddress),
      Biz(None, S_bank, S_Br, Contact1, NoAddress) }

Candidates == ValidCandidates \cup InvalidCandidates

CandidateLists ==
    UNION { [1..n -> Candidates] : n \in 0..MaxLen }

DedupInit ==
    /\ dpc = "input"
    /\ candidates \in CandidateLists
    /\ once = <<>>
    /\ twice = <<>>
    \* the other two programs are not running
    /\ ppc = "off" /\ phone = None /\ normalized = None
    /\ pc = "off" /\ radius_km = 0 /\ niche = None /\ geocoded = "pending"
    /\ net_calls = <<>> /\ retry_count = 0 /\ fetch_log = <<>>
    /\ data = <<>> /\ steps = <<>> /\ response = [kind |-> "none"]

DedupOnce ==
    /\ dpc = "input"
    /\ once' = deduplicate_businesses(candidates)
    /\ dpc' = "once"
    /\ UNCHANGED <<candidates, twice>>
    /\ UNCHANGED <<phoneVars, reqVars>>

DedupTwice ==
    /\ dpc = "once"
    /\ twice' = deduplicate_businesses(once)
    /\ dpc' = "twice"
    /\ UNCHANGED <<candidates, once>>
    /\ UNCHANGED <<phoneVars, reqVars>>

-----------------------------------------------------------------------------
(* normalize_phone                                                         *)

IsDigit(c) == c \in 48..57
Plus == 43

\* ''.join(c for c in s if keep(c)), keep being "digit or +"
RECURSIVE KeepDigitsAndPlus(_)
KeepDigitsAndPlus(s) ==
    IF s = <<>> THEN <<>>
    ELSE IF IsDigit(Head(s)) \/ Head(s) = Plus
         THEN <<Head(s)>> \o KeepDigitsAndPlus(Tail(s))
         ELSE KeepDigitsAndPlus(Tail(s))

StartsWith00(s) == Len(s) >= 2 /\ s[1] = 48 /\ s[2] = 48

\* lines 79-81: a leading 00 becomes +
Replace00(s) == IF StartsWith00(s) THEN <<Plus>> \o SubSeq(s, 3, Len(s)) ELSE s

CountryCode == <<43, 57, 49>>    \* "+91"

normalize_phone(raw) ==
    IF ~Truthy(raw) THEN None
    ELSE LET cleaned  == Replace00(KeepDigitsAndPlus(raw))
             cleaned2 == IF cleaned # <<>> /\ Len(cleaned) = 10
                         THEN CountryCode \o cleaned ELSE cleaned
         IN  IF cleaned2 # <<>> THEN cleaned2 ELSE None

PhoneAlphabet == {Plus, 48, 57, 45}     \* + 0 9 -

ShortStrings(n) == UNION { [1..k -> PhoneAlphabet] : k \in 0..n }

RECURSIVE Nines(_)
Nines(n) == IF n = 0 THEN <<>> ELSE <<57>> \o Nines(n - 1)

\* a short prefix, a run of digits, a short suffix
PhoneInputs ==
    {None} \cup
    { p \o Nines(n) \o q :
        p \in ShortStrings(2), n \in 0..MaxDigitRun, q \in ShortStrings(1) }

PhoneInit ==
    /\ ppc = "input"
    /\ phone \in PhoneInputs
    /\ normalized = None
    \* the other two programs are not running
    /\ dpc = "off" /\ candidates = <<>> /\ once = <<>> /\ twice = <<>>
    /\ pc = "off" /\ radius_km = 0 /\ niche = None /\ geocoded = "pending"
    /\ net_calls = <<>> /\ retry_count = 0 /\ fetch_log = <<>>
    /\ data = <<>> /\ steps = <<>> /\ response = [kind |-> "none"]

NormalizePhone ==
    /\ ppc = "input"
    /\ normalized' = normalize_phone(phone)
    /\ ppc' = "done"
    /\ UNCHANGED phone
    /\ UNCHANGED <<dedupVars, reqVars>>

-----------------------------------------------------------------------------
(* clean_business_name                                                     *)

\* ' '.join(s.split()) on a stripped string
RECURSIVE CollapseSpaces(_)
CollapseSpaces(s) ==
    IF s = <<>> THEN <<>>
    ELSE IF Head(s) \in Whitespace THEN <<32>> \o CollapseSpaces(LStrip(s))
    ELSE <<Head(s)>> \o CollapseSpaces(Tail(s))

Min(S) == CHOOSE m \in S : \A o \in S : m <= o

\* re.sub(r'\s*\([^)]*\)\s*$', '', s) and its [ ] twin: when s ends (up to
\* whitespace) with the closing character, the leftmost match starts at the
\* whitespace before the first opening character that has no closing
\* character between it and the end
StripTrailingGroup(s, open, close) ==
    LET e == Len(RStrip(s))
    IN  IF e = 0 \/ s[e] # close THEN s
        ELSE LET opens == { q \in 1..(e - 1) :
                              /\ s[q] = open
                              /\ \A r \in (q + 1)..(e - 1) : s[r] # close }
             IN  IF opens = {} THEN s
                 ELSE RStrip(SubSeq(s, 1, Min(opens) - 1))

\* s.replace('"', '').replace("'", "")
RECURSIVE RemoveQuotes(_)
RemoveQuotes(s) ==
    IF s = <<>> THEN <<>>
    ELSE IF Head(s) \in {34, 39} THEN RemoveQuotes(Tail(s))
    ELSE <<Head(s)>> \o RemoveQuotes(Tail(s))

clean_business_name(raw) ==
    IF ~Truthy(raw) THEN None
    ELSE LET n1 == CollapseSpaces(Strip(raw))
         IN  IF n1 = <<>> THEN None
             ELSE LET n2 == StripTrailingGroup(n1, 40, 41)
                      n3 == StripTrailingGroup(n2, 91, 93)
                      n4 == Strip(RemoveQuotes(n3))
                  IN  IF n4 # <<>> THEN n4 ELSE None

-----------------------------------------------------------------------------
(* get_businesses: extraction, sort, serialisation                         *)

\* tags.get(k)
TagGet(tags, k) == IF k \in DOMAIN tags THEN tags[k] ELSE None

\* str(n) for a natural number
RECURSIVE IntStr(_)
IntStr(n) == IF n < 10 THEN <<48 + n>> ELSE IntStr(n \div 10) \o <<48 + (n % 10)>>

\* The body of the loop over data["elements"]: the Business appended to
\* raw_businesses, or nothing.  No element of the modelled replies carries a
\* website tag, so normalize_website is only ever given None and returns
\* None.  opening_hours, latitude and longitude are copied through and read
\* by no later decision; they are left out of the record.
extract_element(element, niche_clean) ==
    LET tags == element.tags
        has_contact ==
            \E k \in {"contact:phone", "phone", "contact:website", "website",
                      "addr:street", "addr:city"} : Truthy(TagGet(tags, k))
        raw_name == Or(Or(TagGet(tags, "name"), TagGet(tags, "brand")),
                       TagGet(tags, "operator"))
        clean_name == clean_business_name(raw_name)
        category == Or(Or(Or(TagGet(tags, "amenity"), TagGet(tags, "shop")),
                          TagGet(tags, "tourism")), niche_clean)
        phone_n == normalize_phone(Or(TagGet(tags, "contact:phone"),
                                      TagGet(tags, "phone")))
        email == Or(TagGet(tags, "contact:email"), TagGet(tags, "email"))
        facebook == TagGet(tags, "contact:facebook")
        instagram == TagGet(tags, "contact:instagram")
        contact ==
            [phone     |-> IF Truthy(phone_n) THEN phone_n ELSE None,
             website   |-> None,
             email     |-> IF Truthy(email) THEN email ELSE None,
             facebook  |-> IF Truthy(facebook) THEN facebook ELSE None,
             instagram |-> IF Truthy(instagram) THEN instagram ELSE None]
        street == TagGet(tags, "addr:street")
        city == Or(Or(TagGet(tags, "addr:city"), TagGet(tags, "addr:suburb")),
                   TagGet(tags, "addr:town"))
        postcode == TagGet(tags, "addr:postcode")
        full_address == TagGet(tags, "addr:full")
        address ==
            [street   |-> IF Truthy(street) THEN street ELSE None,
             city     |-> IF Truthy(city) THEN city ELSE None,
             postcode |-> IF Truthy(postcode) THEN postcode ELSE None,
             full     |-> IF Truthy(full_address) THEN full_address ELSE None]
        business ==
            [name      |-> clean_name,
             category  |-> category,
             brand     |-> clean_business_name(TagGet(tags, "brand")),
             contact   |-> contact,
             address   |-> address,
             source_id |-> element.type \o <<95>> \o IntStr(element.id)]
    IN  IF /\ ~Truthy(TagGet(tags, "name")) /\ ~Truthy(TagGet(tags, "brand"))
           /\ ~Truthy(TagGet(tags, "operator")) /\ ~has_contact
        THEN <<>>
        ELSE IF Truthy(business.name) \/ Truthy(business.brand)
             THEN <<business>>
             ELSE <<>>

RECURSIVE extract_all(_, _)
extract_all(elements, niche_clean) ==
    IF elements = <<>> THEN <<>>
    ELSE extract_element(Head(elements), niche_clean)
         \o extract_all(Tail(elements), niche_clean)

\* a <= b for strings (code point order)
RECURSIVE StrLE(_, _)
StrLE(a, b) ==
    IF a = <<>> THEN TRUE
    ELSE IF b = <<>> THEN FALSE
    ELSE IF a[1] < b[1] THEN TRUE
    ELSE IF a[1] > b[1] THEN FALSE
    ELSE StrLE(Tail(a), Tail(b))

\* key=lambda x: (x.name or '').lower()
SortKey(b) == Lower(Or(b.name, <<>>))

RECURSIVE InsertSorted(_, _)
InsertSorted(sorted, b) ==
    IF sorted = <<>> THEN <<b>>
    ELSE IF StrLE(SortKey(Head(sorted)), SortKey(b))
         THEN <<Head(sorted)>> \o InsertSorted(Tail(sorted), b)
         ELSE <<b>> \o sorted

\* list.sort is stable
RECURSIVE sort_loop(_, _)
sort_loop(sorted, bs) ==
    IF bs = <<>> THEN sorted
    ELSE sort_loop(InsertSorted(sorted, Head(bs)), Tail(bs))

sort_by_name(bs) == sort_loop(<<>>, bs)

\* a dict holds only its present keys
DictOf(d) == [k \in {j \in DOMAIN d : d[j] # None} |-> d[k]]

\* {k: v for k, v in result_dict.items() if v is not None}
result_dict(b) ==
    LET keys == {k \in {"name", "category", "brand", "source_id"} : b[k] # None}
                \cup {k \in {"contact", "address"} : DictTruthy(b[k])}
    IN  [k \in keys |-> IF k \in {"contact", "address"} THEN DictOf(b[k])
                        ELSE b[k]]

\* lines 339-458: what get_businesses returns for a fetched reply
process_elements(elements, niche_clean) ==
    LET raw_businesses    == extract_all(elements, niche_clean)
        unique_businesses == sort_by_name(deduplicate_businesses(raw_businesses))
    IN  [i \in 1..Len(unique_businesses) |-> result_dict(unique_businesses[i])]

-----------------------------------------------------------------------------
(* make_overpass_request, get_businesses, find_businesses                  *)

MAX_RETRIES == 3

\* the guard of the three except branches, with <= in place of <
can_retry_le(rc) == rc <= MAX_RETRIES

can_retry(rc) == rc < MAX_RETRIES

\* the except branch of get_businesses re-raising instead of returning []
fetch_failed_reraise(exc) == [kind |-> "raise", error |-> exc]

\* except Exception as e: print(...); return []
fetch_failed(exc) == [kind |-> "return", value |-> <<>>]

\* what find_businesses answers for an outcome of get_businesses: the
\* {count, businesses} body, or the exception that leaves the route
find_businesses_response(gb) ==
    IF gb.kind = "return"
    THEN [kind |-> "ok", count |-> Len(gb.value), businesses |-> gb.value]
    ELSE [kind |-> "error", error |-> gb.error]

S_node == <<110, 111, 100, 101>>     \* "node"
S_way  == <<119, 97, 121>>           \* "way"

BankTags ==
    [name |-> S_CentralBank, amenity |-> S_bank]
    @@ ("addr:street" :> S_MainSt) @@ ("addr:city" :> S_Pune)
    @@ ("addr:postcode" :> S_411001)

E_plain == [type |-> S_node, id |-> 1, tags |-> BankTags]
E_phone == [type |-> S_node, id |-> 2, tags |-> BankTags @@ [phone |-> S_phone10]]
E_shop  == [type |-> S_node, id |-> 3, tags |-> [name |-> S_shop, shop |-> S_atm]]
E_hq    == [type |-> S_way, id |-> 4,
            tags |-> [name |-> S_CentralBankHQ, amenity |-> S_bank,
                      phone |-> S_phone10]]
E_bare  == [type |-> S_node, id |-> 5, tags |-> [amenity |-> S_bank]]

ElementPool == {E_plain, E_phone, E_shop, E_hq, E_bare}

Replies == UNION { [1..n -> ElementPool] : n \in 0..MaxElements }

Radii == {-1, 0, 1, 50, 51, 60}

Niches == {S_bank, <<32>>}

GeocodeOutcomes ==
    {"found", "no_match", "http_error", "connection_error", "malformed"}

FetchOutcomes == {"success", "timeout", "http_error", "connection_error"}

Init ==
    /\ pc = "geocode"
    /\ radius_km \in Radii
    /\ niche \in Niches
    /\ geocoded = "pending"
    /\ net_calls = <<>>
    /\ retry_count = 0
    /\ fetch_log = <<>>
    /\ data = <<>>
    /\ steps = <<>>
    /\ response = [kind |-> "none"]
    \* the other two programs are not running
    /\ dpc = "off" /\ candidates = <<>> /\ once = <<>> /\ twice = <<>>
    /\ ppc = "off" /\ phone = None /\ normalized = None

\* find_businesses up to the call of get_businesses: get_coordinates makes
\* one request; raise_for_status, a failed connection and an undecodable
\* body raise, and nothing between there and the route catches
GetCoordinates ==
    /\ pc = "geocode"
    /\ net_calls' = Append(net_calls, "nominatim")
    /\ \E outcome \in GeocodeOutcomes :
        /\ geocoded' = outcome
        /\ IF outcome = "found"
           THEN pc' = "validate" /\ UNCHANGED response
           ELSE IF outcome = "no_match"
           THEN /\ pc' = "done"
                /\ response' = [kind |-> "ok", count |-> 0, businesses |-> <<>>]
           ELSE /\ pc' = "done"
                /\ response' = [kind |-> "error", error |-> outcome]
    /\ UNCHANGED <<radius_km, niche, retry_count, fetch_log, data, steps>>
    /\ UNCHANGED <<dedupVars, phoneVars>>

\* get_businesses, lines 262-273.  lat and lon are floats from
\* get_coordinates and radius_km is a float parameter of the route, so the
\* float() conversions succeed.
ValidateInputs ==
    /\ pc = "validate"
    /\ IF ~Truthy(niche) \/ ~Truthy(Strip(niche))
       THEN /\ pc' = "done"
            /\ response' = find_businesses_response(
                               [kind |-> "raise", error |-> "ValueError"])
       ELSE IF radius_km <= 0 \/ radius_km > 50
       THEN /\ pc' = "done"
            /\ response' = find_businesses_response(
                               [kind |-> "raise", error |-> "ValueError"])
       ELSE pc' = "fetch" /\ UNCHANGED response
    /\ UNCHANGED <<radius_km, niche, geocoded, net_calls, retry_count,
                   fetch_log, data, steps>>
    /\ UNCHANGED <<dedupVars, phoneVars>>

\* one call of make_overpass_request: a POST, then the reply, or a retry
\* (the recursive call with retry_count + 1), or the final Exception, which
\* get_businesses turns into its result
OverpassAttempt ==
    /\ pc = "fetch"
    /\ net_calls' = Append(net_calls, "overpass")
    /\ \E outcome \in FetchOutcomes :
        /\ fetch_log' = Append(fetch_log, outcome)
        /\ IF outcome = "success"
           THEN /\ \E reply \in Replies : data' = reply
                /\ pc' = "process"
                /\ UNCHANGED <<retry_count, response>>
           ELSE IF can_retry(retry_count)
           THEN /\ retry_count' = retry_count + 1
                /\ UNCHANGED <<pc, data, response>>
           ELSE /\ pc' = "done"
                /\ response' = find_businesses_response(fetch_failed(outcome))
                /\ UNCHANGED <<retry_count, data>>
    /\ UNCHANGED <<radius_km, niche, geocoded, steps>>
    /\ UNCHANGED <<dedupVars, phoneVars>>

\* get_businesses from line 339 on, and the return of find_businesses
ProcessElements ==
    /\ pc = "process"
    /\ steps' = <<"extract", "deduplicate", "sort", "serialize">>
    /\ response' = find_businesses_response(
           [kind |-> "return",
            value |-> process_elements(data, Lower(Strip(niche)))])
    /\ pc' = "done"
    /\ UNCHANGED <<radius_km, niche, geocoded, net_calls, retry_count,
                   fetch_log, data>>
    /\ UNCHANGED <<dedupVars, phoneVars>>

-----------------------------------------------------------------------------
(* Specifications                                                          *)

\* deduplicate_businesses on every candidate list, then on its own output
DedupNext == DedupOnce \/ DedupTwice

DedupSpec == DedupInit /\ [][DedupNext]_vars

\* normalize_phone on every raw string
PhoneNext == NormalizePhone

PhoneSpec == PhoneInit /\ [][PhoneNext]_vars

\* one /find-businesses request
Next == GetCoordinates \/ ValidateInputs \/ OverpassAttempt \/ ProcessElements

Spec == Init /\ [][Next]_vars

\* requests.post has a timeout and every backoff sleep ends, so an attempt
\* that is due is eventually made and comes back
FairSpec == Spec /\ WF_vars(OverpassAttempt)

-----------------------------------------------------------------------------
(* Properties                                                              *)

Last(s) == s[Len(s)]

\* C1: deduplicate_businesses is idempotent: applied to its own output it
\* accepts every record again and discards none.
DedupIdempotent == dpc = "twice" => twice = once

\* several records survive the first pass, which discarded a valid duplicate
DedupIdempotentWitness ==
    /\ dpc = "twice"
    /\ Len(once) >= 2
    /\ Len(once) < Len(candidates)
    /\ \A i \in 1..Len(candidates) : is_valid(candidates[i])

\* C2: no two records of a deduplicated output have the same identity hash.
NoSharedHash ==
    dpc \in {"once", "twice"} =>
        \A i, j \in 1..Len(once) :
            i # j => get_hash_id(once[i]) # get_hash_id(once[j])

\* two different valid candidates had the same hash and the output still
\* holds several records
NoSharedHashWitness ==
    /\ dpc = "once"
    /\ Len(once) >= 2
    /\ \E i, j \in 1..Len(candidates) :
        /\ i < j
        /\ candidates[i] # candidates[j]
        /\ is_valid(candidates[i]) /\ is_valid(candidates[j])
        /\ get_hash_id(candidates[i]) = get_hash_id(candidates[j])

\* C3: every record of a deduplicated output has a name or a brand, and its
\* lowercased, trimmed name is no generic placeholder and is longer than 2
\* characters; so a record without a name is never in the output.
OutputValid ==
    dpc \in {"once", "twice"} =>
        \A i \in 1..Len(once) :
            LET trimmed == IF Truthy(once[i].name)
                           THEN Strip(Lower(once[i].name)) ELSE <<>>
            IN  /\ Truthy(once[i].name) \/ Truthy(once[i].brand)
                /\ trimmed \notin generic_names
                /\ Len(trimmed) > 2
                /\ Truthy(once[i].name)

\* the input held a placeholder name and a brand-only record, and the output
\* is not empty
OutputValidWitness ==
    /\ dpc = "once"
    /\ once # <<>>
    /\ \E i \in 1..Len(candidates) : candidates[i].name = S_shop
    /\ \E j \in 1..Len(candidates) :
        ~Truthy(candidates[j].name) /\ Truthy(candidates[j].brand)

Prefix(s, k) == SubSeq(s, 1, k)

\* C9: the earlier-discovered record wins ties.  Of two output records with
\* equal lowercased names the later one has the strictly greater score; a
\* candidate that meets an accepted record of equal lowercased name and a
\* score not below its own is discarded; and accepting or discarding a
\* candidate leaves the records accepted before it in place.
EarlierWinsTies ==
    dpc \in {"once", "twice"} =>
        /\ \A i, j \in 1..Len(once) :
            (i < j /\ Lower(once[i].name) = Lower(once[j].name))
                => data_score(once[j]) > data_score(once[i])
        /\ \A k \in 1..Len(candidates) :
            LET before == deduplicate_businesses(Prefix(candidates, k - 1))
                after  == deduplicate_businesses(Prefix(candidates, k))
                cand   == candidates[k]
            IN  /\ Len(after) >= Len(before)
                /\ Prefix(after, Len(before)) = before
                /\ (\E i \in 1..Len(before) :
                        /\ Truthy(cand.name)
                        /\ Lower(before[i].name) = Lower(cand.name)
                        /\ data_score(cand) <= data_score(before[i]))
                    => after = before

\* the output holds two records of one lowercased name, and a valid candidate
\* that neither the hash nor the name+address key could reject lost a tie
\* against an accepted record
EarlierWinsTiesWitness ==
    /\ dpc = "once"
    /\ \E i, j \in 1..Len(once) :
        i < j /\ Lower(once[i].name) = Lower(once[j].name)
    /\ \E k \in 1..Len(candidates) :
        /\ is_valid(candidates[k])
        /\ ~DictTruthy(candidates[k].address)
        /\ \A i \in 1..Len(once) :
            get_hash_id(once[i]) # get_hash_id(candidates[k])
        /\ \E i \in 1..Len(once) :
            /\ Lower(once[i].name) = Lower(candidates[k].name)
            /\ data_score(once[i]) = data_score(candidates[k])

\* C10: normalize_phone returns None exactly when no digit or '+' remains,
\* otherwise digits with at most one '+', which is then the first character;
\* "+91" is prepended only to exactly 10 digits without a '+'.
PhoneWellFormed ==
    ppc = "done" =>
        LET kept    == IF phone = None THEN <<>> ELSE KeepDigitsAndPlus(phone)
            cleaned == Replace00(kept)
        IN  /\ (normalized = None) <=> (kept = <<>>)
            /\ normalized # None =>
                \A i \in 1..Len(normalized) :
                    \/ IsDigit(normalized[i])
                    \/ normalized[i] = Plus /\ i = 1
            /\ (normalized # None /\ normalized = CountryCode \o cleaned) =>
                /\ Len(cleaned) = 10
                /\ \A i \in 1..Len(cleaned) : IsDigit(cleaned[i])

IsCentralBankPair ==
    data \in { <<E_plain, E_phone>>, <<E_phone, E_plain>> }

\* C4: for the two "Central Bank" elements, one without contact data and one
\* with a phone number, in either order, the answer holds exactly one record
\* and it is the one with the phone number.
CentralBankKeepsPhone ==
    (pc = "done" /\ IsCentralBankPair) =>
        /\ response.kind = "ok"
        /\ response.count = 1
        /\ "contact" \in DOMAIN response.businesses[1]
        /\ "phone" \in DOMAIN response.businesses[1].contact

\* C5: a radius that is <= 0 or > 50 is rejected with a ValueError before
\* any network call, geocoding included.
RadiusRejectedBeforeNetwork ==
    (pc = "done" /\ (radius_km <= 0 \/ radius_km > 50)) =>
        /\ response.kind = "error"
        /\ response.error = "ValueError"
        /\ net_calls = <<>>

\* C6: whatever way geocoding fails, find_businesses answers
\* {count: 0, businesses: []} and surfaces no error.
GeocodeFailureDegrades ==
    (pc = "done" /\ geocoded \notin {"pending", "found"}) =>
        /\ response.kind = "ok"
        /\ response.count = 0
        /\ response.businesses = <<>>

FetchFailedForGood ==
    pc = "done" /\ fetch_log # <<>> /\ Last(fetch_log) # "success"

\* C7: for valid inputs a terminal fetch failure gives an empty list, no
\* error reaches the caller, and no extraction, dedup or sort step runs.
FetchFailureGivesEmpty ==
    FetchFailedForGood =>
        /\ response.kind = "ok"
        /\ response.count = 0
        /\ response.businesses = <<>>
        /\ steps = <<>>

\* every attempt of a valid request timed out
FetchFailureGivesEmptyWitness ==
    /\ FetchFailedForGood
    /\ radius_km \in 1..50
    /\ \A i \in 1..Len(fetch_log) : fetch_log[i] = "timeout"

\* C8 as stated: one query never takes more than MAX_RETRIES = 3 attempts.
AttemptsWithinCap == Len(fetch_log) <= MAX_RETRIES

AttemptsBounded ==
    /\ Len(fetch_log) <= MAX_RETRIES + 1
    /\ Len(fetch_log) = MAX_RETRIES + 1 => pc # "fetch"
    /\ \A i \in 1..(Len(fetch_log) - 1) : fetch_log[i] # "success"
    /\ (fetch_log # <<>> /\ Last(fetch_log) = "success") => pc # "fetch"
    /\ FetchFailedForGood => Len(fetch_log) = MAX_RETRIES + 1

\* C8, amended: make_overpass_request terminates after at most
\* MAX_RETRIES + 1 = 4 attempts (the first one and MAX_RETRIES retries); a
\* failure is terminal only once all of them failed, and a success ends the
\* sequence with no further attempt.
FetchTerminatesWithinRetries ==
    /\ []AttemptsBounded
    /\ (pc = "fetch") ~> (pc # "fetch")

\* the first attempt and all three retries failed
FetchTerminatesWithinRetriesWitness ==
    /\ FetchFailedForGood
    /\ Len(fetch_log) = MAX_RETRIES + 1
    /\ retry_count = MAX_RETRIES

====
